---- MODULE Spec2Model ----
(***************************************************************************)
(* Inventory service (src/main.js, src/unnamed/part_000): an Express app   *)
(* keeping a list of inventory records in memory and their photos as files *)
(* in a cache directory.  Each route handler runs to completion on the     *)
(* event loop; the multer middleware of POST /register and                 *)
(* PUT /inventory/:id/photo writes the uploaded file to the cache          *)
(* directory before the handler runs, and other requests may be served in  *)
(* between.                                                                *)
(***************************************************************************)
EXTENDS Integers, Sequences, FiniteSets, TLC

\* ---------------------------------------------------------------- bounds
MaxItems == 2      \* registrations accepted in one behaviour of Spec
MaxListItems == 3  \* registrations accepted in one behaviour of SpecList
MaxClock == 1      \* largest value of Date.now() (the clock starts at 0)
MaxPending == 1    \* requests between the upload middleware and their handler

\* ---------------------------------------------------------------- values
Null == <<>>                 \* JavaScript null (photo: null, photo_url: null)
Undefined == "undefined"     \* a field absent from req.body
NaN == -1                    \* parseInt of a non-number: equal to no record id

NameInputs == {Undefined, "", "n"}        \* req.body.inventory_name
DescInputs == {Undefined, "d"}            \* req.body.description
OrigNames == {"a.jpg"}                    \* file.originalname
Bytes == {"X", "Y"}                       \* content of an uploaded file
\* req.params.id, a string: numbers, a number followed by a letter, no number
IdParams == {<<"1">>, <<"2">>, <<"3", "x">>, <<"x">>}
FlagInputs == {Undefined, "true", "false"}  \* req.body.has_photo

\* A directory path: absolute or relative, and its segments.
Dirname == [abs |-> TRUE, segs |-> <<"app">>]     \* __dirname of the script
\* options.cache, the --cache option: 'cache', './cache', '/data/cache'
CacheDirs == {[abs |-> FALSE, segs |-> <<"cache">>],
              [abs |-> FALSE, segs |-> <<".", "cache">>],
              [abs |-> TRUE, segs |-> <<"data", "cache">>]}
\* process.cwd(): the script's directory or another one
WorkDirs == {Dirname, [abs |-> TRUE, segs |-> <<"srv">>]}
Envs == [cache : CacheDirs, cwd : WorkDirs]
\* the service started as: cd /app; node main.js --cache /data/cache
DefaultEnv == [cache |-> [abs |-> TRUE, segs |-> <<"data", "cache">>],
               cwd |-> Dirname]

NoFile == [present |-> FALSE, originalname |-> "", bytes |-> ""]
FileInputs == {NoFile} \cup
              {[present |-> TRUE, originalname |-> o, bytes |-> b] :
                  o \in OrigNames, b \in Bytes}

VARIABLES
  inventory,   \* let inventory = []: the records, in list order
  nextId,      \* let nextId = 1
  files,       \* the cache directory: file name -> content
  now,         \* Date.now()
  pending,     \* requests whose upload middleware has run, handler not yet
  resp,        \* the last response sent
  issued,      \* ids of the items returned by 201 responses, in order
  env          \* options.cache and process.cwd(), fixed when the service starts

vars == <<inventory, nextId, files, now, pending, resp, issued, env>>

\* ---------------------------------------------------------------- helpers
\* x === undefined in place of !x
IsUndefined(x) == x = Undefined

\* !x for a text field of req.body: absent or the empty string
Falsy(x) == x = Undefined \/ x = ""

\* item.photo / req.file as a condition: null is false, a file name is true
Truthy(photo) == photo # Null

IsDigit(c) == c \in {"1", "2", "3"}
DigitVal(c) == CASE c = "1" -> 1 [] c = "2" -> 2 [] c = "3" -> 3 [] OTHER -> 0

RECURSIVE ParseDigits(_, _)
ParseDigits(s, acc) ==
  IF s = <<>> \/ ~IsDigit(Head(s)) THEN acc
  ELSE ParseDigits(Tail(s), acc * 10 + DigitVal(Head(s)))

\* parseInt(req.params.id): the leading decimal digits, NaN when there are none
ParseInt(s) == IF s = <<>> \/ ~IsDigit(Head(s)) THEN NaN ELSE ParseDigits(s, 0)

\* inventory[id - 1] in place of a search: the id taken for a position
IndexFromId(inv, id) == IF id \in 1..Len(inv) THEN id ELSE 0

\* inventory.findIndex(i => i.id === id), 1-based; 0 when findIndex gives -1
FindIndex(inv, id) ==
  IF \E k \in 1..Len(inv) : inv[k].id = id
  THEN CHOOSE k \in 1..Len(inv) :
         inv[k].id = id /\ \A j \in 1..(k - 1) : inv[j].id # id
  ELSE 0

\* `${Date.now()}-${file.originalname}`: the first '-' ends the digits of the
\* clock, so two names are equal exactly when clock and original name are.
UniqueName(t, originalname) == <<t, originalname>>

\* fs.existsSync / writing a file / fs.unlinkSync in the cache directory
ExistsSync(fs, name) == name \in DOMAIN fs
WriteFile(fs, name, bytes) ==
  [n \in DOMAIN fs \cup {name} |-> IF n = name THEN bytes ELSE fs[n]]
UnlinkSync(fs, name) == [n \in DOMAIN fs \ {name} |-> fs[n]]

\* if (item.photo) { fs.unlinkSync(p) } with the existsSync test left out
UnlinkCalledUnchecked(fs, photo) == Truthy(photo)

\* if (item.photo) { if (fs.existsSync(p)) ... }: fs.unlinkSync is called
UnlinkCalled(fs, photo) == Truthy(photo) /\ ExistsSync(fs, photo)

\* fs.unlinkSync of a file that is not there throws ENOENT
UnlinkThrows(fs, photo) == UnlinkCalled(fs, photo) /\ ~ExistsSync(fs, photo)

\* the old photo is left in the cache directory
RemovePhotoForgotten(fs, photo) == fs

\* if (item.photo) { if (fs.existsSync(p)) fs.unlinkSync(p) }
RemovePhoto(fs, photo) ==
  IF UnlinkCalled(fs, photo) THEN UnlinkSync(fs, photo) ELSE fs

\* path normalisation: '.' segments are dropped
RECURSIVE Normalize(_)
Normalize(segs) ==
  IF segs = <<>> THEN <<>>
  ELSE IF Head(segs) = "." THEN Normalize(Tail(segs))
  ELSE <<Head(segs)>> \o Normalize(Tail(segs))

\* path.join(a, b) of two directories: the segments of b follow those of a,
\* also when b is absolute; the result is absolute when a is
JoinDir(a, b) == [abs |-> a.abs, segs |-> Normalize(a.segs \o b.segs)]

\* path.join(dir, name): the file name in the directory
JoinFile(dir, name) ==
  [abs |-> dir.abs, segs |-> Normalize(dir.segs), file |-> name]

\* what the file system does with a path: a relative one starts at the
\* working directory
Resolve(cwd, p) ==
  IF p.abs THEN p ELSE [p EXCEPT !.abs = TRUE, !.segs = cwd.segs \o @]

\* multer: path.join(destination, filename), destination = options.cache
StorePath(e, name) == Resolve(e.cwd, JoinFile(e.cache, name))

\* path.join(options.cache, item.photo) of the two unlinking handlers
UnlinkPath(e, name) == Resolve(e.cwd, JoinFile(e.cache, name))

\* const photoPath of GET /inventory/:id/photo: main.js joins __dirname,
\* options.cache and item.photo, part_000 options.cache and item.photo
PhotoPath(variant, e, name) ==
  IF variant = "main.js" THEN JoinFile(JoinDir(Dirname, e.cache), name)
  ELSE JoinFile(e.cache, name)

\* fs.existsSync(p) and the content at p: the files of the file system are
\* those stored in the cache directory
ExistsAt(e, fs, p) ==
  \E n \in DOMAIN fs : StorePath(e, n) = Resolve(e.cwd, p)

ContentAt(e, fs, p) ==
  fs[CHOOSE n \in DOMAIN fs : StorePath(e, n) = Resolve(e.cwd, p)]

\* `http://${options.host}:${options.port}/inventory/${item.id}/photo`
PhotoURL(id) == <<"http://host:port/inventory/", id, "/photo">>

\* { ...item, photo_url: item.photo ? url : null }
WithPhotoUrl(item) ==
  [id |-> item.id, inventory_name |-> item.inventory_name,
   description |-> item.description, photo |-> item.photo,
   photo_url |-> IF Truthy(item.photo) THEN PhotoURL(item.id) ELSE Null]

\* res.status(404).json({ error: 'Item not found' })
NotFound ==
  [status |-> 404, body |-> [error |-> "Item not found"]]

\* an error thrown by a handler or passed on by a middleware: Express
\* answers 500
ServerError(what) == [status |-> 500, body |-> [error |-> what]]

\* the text appended to the description: a label and the photo URL in
\* brackets (the label written in Latin letters)
PhotoRef(id) ==
  " [Foto: http://host:port/inventory/" \o ToString(id) \o "/photo]"

\* const result = { id, inventory_name, description, photo_url }
SearchResult(item, hasPhoto) ==
  [id |-> item.id, inventory_name |-> item.inventory_name,
   description |-> IF hasPhoto /\ Truthy(item.photo)
                   THEN item.description \o PhotoRef(item.id)
                   ELSE item.description,
   photo_url |-> IF Truthy(item.photo) THEN PhotoURL(item.id) ELSE Null]

\* ---------------------------------------------------------------- initial state
Init ==
  /\ inventory = <<>>
  /\ nextId = 1
  /\ files = [n \in {} |-> ""]
  /\ now = 0
  /\ pending = {}
  /\ resp = [status |-> 0, body |-> [error |-> ""]]
  /\ issued = <<>>
  /\ env = DefaultEnv

\* the service started with any cache directory from any working directory
InitAnyEnv ==
  /\ inventory = <<>>
  /\ nextId = 1
  /\ files = [n \in {} |-> ""]
  /\ now = 0
  /\ pending = {}
  /\ resp = [status |-> 0, body |-> [error |-> ""]]
  /\ issued = <<>>
  /\ env \in Envs

\* ---------------------------------------------------------------- actions
\* Time passes: Date.now() grows.
Tick ==
  /\ now < MaxClock
  /\ now' = now + 1
  /\ UNCHANGED <<inventory, nextId, files, pending, resp, issued, env>>

\* upload.single('photo'): multer parses the multipart body and, when it holds
\* a file, writes it to options.cache under storage.filename, replacing a file
\* of that name.  The route handler runs later, with req.body and req.file.
\* The text fields and the id of the request are read by the handler only, so
\* they are drawn where the handler reads them.  wrote records whether the
\* upload changed the cache directory.
Upload(op, f) ==
  /\ Cardinality(pending) < MaxPending
  /\ LET filename == IF f.present THEN UniqueName(now, f.originalname) ELSE Null
         written == IF f.present THEN WriteFile(files, filename, f.bytes)
                    ELSE files
         req == [op |-> op, file |-> filename, bytes |-> f.bytes,
                 wrote |-> (written # files)]
     IN /\ req \notin pending
        /\ files' = written
        /\ pending' = pending \cup {req}
  /\ UNCHANGED <<inventory, nextId, now, resp, issued, env>>

UploadRegister(f) == Upload("register", f)

UploadPhoto(f) == Upload("photo", f)

\* id: inventory.length + 1 in place of the counter
NewItemIdFromLength(id, name, desc, file) ==
  [id |-> Len(inventory) + 1, inventory_name |-> name,
   description |-> IF Falsy(desc) THEN "" ELSE desc,
   photo |-> IF Truthy(file) THEN file ELSE Null]

\* const newItem = { id: nextId++, inventory_name, description: description
\* || '', photo: req.file ? req.file.filename : null }
NewItem(id, name, desc, file) ==
  [id |-> id, inventory_name |-> name,
   description |-> IF Falsy(desc) THEN "" ELSE desc,
   photo |-> IF Truthy(file) THEN file ELSE Null]

\* id: nextId with the increment forgotten
PostIncrementForgotten(n) == n

\* nextId++ : the value of nextId afterwards
PostIncrement(n) == n + 1

\* inventory.unshift(newItem) in place of push
Unshift(inv, item) == <<item>> \o inv

\* inventory.push(newItem)
Push(inv, item) == Append(inv, item)

\* inventory.splice(itemIndex, 1), itemIndex 1-based
Splice(inv, k) == SubSeq(inv, 1, k - 1) \o SubSeq(inv, k + 1, Len(inv))

\* if (req.body.f) item.f = req.body.f : an empty value is not assigned
AssignIfTruthy(old, supplied) ==
  IF supplied # Undefined /\ supplied # "" THEN supplied ELSE old

\* if (req.body.f !== undefined) item.f = req.body.f
Assign(old, supplied) == IF supplied # Undefined THEN supplied ELSE old

\* app.post('/register', upload.single('photo'), handler): the handler
RegisterHandler(r, inventory_name, description) ==
  /\ r \in pending
  /\ r.op = "register"
  /\ pending' = pending \ {r}
  /\ IF Falsy(inventory_name)
     THEN /\ resp' = [status |-> 400,
                      body |-> [error |-> "Inventory name is required"]]
          /\ UNCHANGED <<inventory, nextId, issued>>
     ELSE LET newItem == NewItem(nextId, inventory_name, description, r.file)
          IN /\ nextId' = PostIncrement(nextId)
             /\ inventory' = Push(inventory, newItem)
             /\ resp' = [status |-> 201,
                         body |-> [message |-> "Item registered successfully",
                                   item |-> newItem]]
             /\ issued' = Append(issued, newItem.id)
  /\ UNCHANGED <<files, now, env>>

\* app.get('/inventory')
ListHandler ==
  /\ resp' = [status |-> 200,
              body |-> [list |-> [k \in 1..Len(inventory) |->
                                    WithPhotoUrl(inventory[k])]]]
  /\ UNCHANGED <<inventory, nextId, files, now, pending, issued, env>>

\* app.get('/inventory/:id')
GetHandler(param) ==
  LET id == ParseInt(param)
      k == FindIndex(inventory, id)
  IN /\ resp' = IF k = 0 THEN NotFound
                ELSE [status |-> 200,
                      body |-> [item |-> WithPhotoUrl(inventory[k])]]
     /\ UNCHANGED <<inventory, nextId, files, now, pending, issued, env>>

\* app.put('/inventory/:id')
UpdateHandler(param, name, desc) ==
  LET id == ParseInt(param)
      k == FindIndex(inventory, id)
  IN /\ IF k = 0
        THEN /\ resp' = NotFound
             /\ UNCHANGED inventory
        ELSE LET item == [inventory[k] EXCEPT
                            !.inventory_name = Assign(@, name),
                            !.description = Assign(@, desc)]
             IN /\ inventory' = [inventory EXCEPT ![k] = item]
                /\ resp' = [status |-> 200,
                            body |-> [message |-> "Item updated successfully",
                                      item |-> item]]
     /\ UNCHANGED <<nextId, files, now, pending, issued, env>>

\* The response of app.get('/inventory/:id/photo') of a variant when no
\* other request is served before the file is sent.  res.sendFile throws a
\* TypeError for a path that is not absolute.
PhotoResponse(variant, param) ==
  LET id == ParseInt(param)
      k == FindIndex(inventory, id)
      photoPath == PhotoPath(variant, env, inventory[k].photo)
  IN IF k = 0 THEN NotFound
     ELSE IF ~Truthy(inventory[k].photo)
     THEN [status |-> 404, body |-> [error |-> "Photo not found"]]
     ELSE IF ~ExistsAt(env, files, photoPath)
     THEN [status |-> 404, body |-> [error |-> "Photo file not found"]]
     ELSE IF ~photoPath.abs
     THEN ServerError("path must be absolute")
     ELSE [status |-> 200,
           body |-> [bytes |-> ContentAt(env, files, photoPath)]]

\* app.get('/inventory/:id/photo') of part_000: the file looked up in
\* options.cache
ReadPhotoHandler(param) ==
  /\ resp' = PhotoResponse("part_000", param)
  /\ UNCHANGED <<inventory, nextId, files, now, pending, issued, env>>

\* app.get('/inventory/:id/photo') of main.js: the file looked up in
\* options.cache under __dirname
ReadPhotoMain(param) ==
  /\ resp' = PhotoResponse("main.js", param)
  /\ UNCHANGED <<inventory, nextId, files, now, pending, issued, env>>

\* app.get('/inventory/:id/photo') of main.js up to the call of res.sendFile,
\* which returns at once: the file is opened and sent in later turns of the
\* event loop.
ReadPhotoCheck(param) ==
  LET id == ParseInt(param)
      k == FindIndex(inventory, id)
      r == PhotoResponse("main.js", param)
      send == [op |-> "send", file |-> inventory[k].photo, bytes |-> "",
               wrote |-> FALSE]
  IN /\ Cardinality(pending) < MaxPending
     /\ IF r.status = 200
        THEN /\ pending' = pending \cup {send}
             /\ UNCHANGED resp
        ELSE /\ resp' = r
             /\ UNCHANGED pending
     /\ UNCHANGED <<inventory, nextId, files, now, issued, env>>

\* res.sendFile(photoPath) at work: the file is opened and streamed; a file
\* that is gone makes send report ENOENT, answered with 404.
SendFile(s) ==
  /\ s \in pending
  /\ s.op = "send"
  /\ pending' = pending \ {s}
  /\ LET photoPath == PhotoPath("main.js", env, s.file)
     IN resp' = IF ExistsAt(env, files, photoPath)
                THEN [status |-> 200,
                      body |-> [bytes |-> ContentAt(env, files, photoPath)]]
                ELSE [status |-> 404, body |-> [error |-> "ENOENT"]]
  /\ UNCHANGED <<inventory, nextId, files, now, issued, env>>

\* app.post('/search') with item.description itself extended
SearchHandlerInPlace(idParam, has_photo) ==
  LET id == ParseInt(idParam)
      k == FindIndex(inventory, id)
      hasPhoto == has_photo = "true"
  IN /\ IF k = 0
        THEN /\ resp' = NotFound
             /\ UNCHANGED inventory
        ELSE LET result == SearchResult(inventory[k], hasPhoto)
             IN /\ inventory' = [inventory EXCEPT
                                   ![k].description = result.description]
                /\ resp' = [status |-> 200, body |-> result]
     /\ UNCHANGED <<nextId, files, now, pending, issued, env>>

\* app.post('/search')
SearchHandler(idParam, has_photo) ==
  LET id == ParseInt(idParam)
      k == FindIndex(inventory, id)
      hasPhoto == has_photo = "true"
  IN /\ resp' = IF k = 0 THEN NotFound
                ELSE [status |-> 200,
                      body |-> SearchResult(inventory[k], hasPhoto)]
     /\ UNCHANGED <<inventory, nextId, files, now, pending, issued, env>>

\* app.put('/inventory/:id/photo', upload.single('photo'), handler): the handler
PhotoHandler(r, param) ==
  /\ r \in pending
  /\ r.op = "photo"
  /\ pending' = pending \ {r}
  /\ LET id == ParseInt(param)
         k == FindIndex(inventory, id)
     IN IF k = 0
        THEN /\ resp' = NotFound
             /\ UNCHANGED <<inventory, files>>
        ELSE IF UnlinkThrows(files, inventory[k].photo)
        THEN /\ resp' = ServerError("ENOENT")
             /\ UNCHANGED <<inventory, files>>
        ELSE LET item == [inventory[k] EXCEPT
                            !.photo = IF Truthy(r.file) THEN r.file ELSE Null]
             IN /\ files' = RemovePhoto(files, inventory[k].photo)
                /\ inventory' = [inventory EXCEPT ![k] = item]
                /\ resp' = [status |-> 200,
                            body |-> [message |-> "Photo updated successfully",
                                      item |-> item]]
  /\ UNCHANGED <<nextId, now, issued, env>>

\* app.delete('/inventory/:id')
DeleteHandler(param) ==
  LET id == ParseInt(param)
      k == FindIndex(inventory, id)
  IN /\ IF k = 0
        THEN /\ resp' = NotFound
             /\ UNCHANGED <<inventory, files>>
        ELSE IF UnlinkThrows(files, inventory[k].photo)
        THEN /\ resp' = ServerError("ENOENT")
             /\ UNCHANGED <<inventory, files>>
        ELSE /\ files' = RemovePhoto(files, inventory[k].photo)
             /\ inventory' = Splice(inventory, k)
             /\ resp' = [status |-> 200,
                         body |-> [message |-> "Item deleted successfully",
                                   id |-> id]]
     /\ UNCHANGED <<nextId, now, pending, issued, env>>

\* the storage error swallowed: the route handler is called without a file
UploadErrorIgnored(op, f) ==
  /\ f.present
  /\ Cardinality(pending) < MaxPending
  /\ pending' = pending \cup {[op |-> op, file |-> Null, bytes |-> "",
                               wrote |-> FALSE]}
  /\ pending' # pending
  /\ UNCHANGED <<inventory, nextId, files, now, resp, issued, env>>

\* upload.single('photo') when storing the file fails (the disk is full, the
\* cache directory is gone): multer passes the error on, the route handler
\* is not called and Express answers 500.  The file that was being written
\* may be left behind, cut short.
UploadFails(op, f) ==
  /\ f.present
  /\ \E left \in BOOLEAN :
       files' = IF left
                THEN WriteFile(files, UniqueName(now, f.originalname), "")
                ELSE files
  /\ resp' = ServerError("storage")
  /\ UNCHANGED <<inventory, nextId, now, pending, issued, env>>

\* app.delete('/inventory/:id') when fs.unlinkSync throws (EACCES, EBUSY):
\* the exception leaves the handler before inventory.splice
DeleteUnlinkFails(param) ==
  LET id == ParseInt(param)
      k == FindIndex(inventory, id)
  IN /\ k # 0
     /\ UnlinkCalled(files, inventory[k].photo)
     /\ resp' = ServerError("unlink")
     /\ UNCHANGED <<inventory, nextId, files, now, pending, issued, env>>

\* app.put('/inventory/:id/photo') when fs.unlinkSync throws: the exception
\* leaves the handler before item.photo is assigned
PhotoUnlinkFails(r, param) ==
  LET id == ParseInt(param)
      k == FindIndex(inventory, id)
  IN /\ r \in pending
     /\ r.op = "photo"
     /\ k # 0
     /\ UnlinkCalled(files, inventory[k].photo)
     /\ pending' = pending \ {r}
     /\ resp' = ServerError("unlink")
     /\ UNCHANGED <<inventory, nextId, files, now, issued, env>>

\* The registrations of a behaviour are bounded: a request with a name is
\* taken up only while fewer than max records have been registered.
Admitted(max, name) == (name # Undefined /\ name # "") => nextId <= max

Next ==
  \/ Tick
  \/ \E f \in FileInputs : UploadRegister(f)
  \/ \E f \in FileInputs : UploadPhoto(f)
  \/ \E r \in pending, name \in NameInputs, desc \in DescInputs :
       Admitted(MaxItems, name) /\ RegisterHandler(r, name, desc)
  \/ \E r \in pending, param \in IdParams : PhotoHandler(r, param)
  \/ ListHandler
  \/ \E param \in IdParams : GetHandler(param)
  \/ \E param \in IdParams, name \in NameInputs, desc \in DescInputs :
       UpdateHandler(param, name, desc)
  \/ \E param \in IdParams : ReadPhotoHandler(param)
  \/ \E param \in IdParams : DeleteHandler(param)

Spec == Init /\ [][Next]_vars

\* The service used without photos: more records, no uploaded files.
NextList ==
  \/ UploadRegister(NoFile)
  \/ UploadPhoto(NoFile)
  \/ \E r \in pending, name \in NameInputs, desc \in DescInputs :
       Admitted(MaxListItems, name) /\ RegisterHandler(r, name, desc)
  \/ \E r \in pending, param \in IdParams : PhotoHandler(r, param)
  \/ ListHandler
  \/ \E param \in IdParams : GetHandler(param)
  \/ \E param \in IdParams, name \in NameInputs, desc \in DescInputs :
       UpdateHandler(param, name, desc)
  \/ \E param \in IdParams : DeleteHandler(param)

SpecList == Init /\ [][NextList]_vars

\* The writing requests alone: registration, update, photo replacement and
\* delete, with uploads of one content.
OneFile == {NoFile, [present |-> TRUE, originalname |-> "a.jpg", bytes |-> "X"]}

NextWrite ==
  \/ Tick
  \/ \E f \in OneFile : UploadRegister(f)
  \/ \E f \in OneFile : UploadPhoto(f)
  \/ \E r \in pending, name \in NameInputs, desc \in DescInputs :
       Admitted(MaxItems, name) /\ RegisterHandler(r, name, desc)
  \/ \E r \in pending, param \in IdParams : PhotoHandler(r, param)
  \/ \E param \in IdParams, name \in NameInputs, desc \in DescInputs :
       UpdateHandler(param, name, desc)
  \/ \E param \in IdParams : DeleteHandler(param)

SpecWrite == Init /\ [][NextWrite]_vars

\* The requests that store and remove files, with the failures of the file
\* system: a stored file that cannot be written, an unlink that throws.
NextFail ==
  \/ Tick
  \/ \E f \in OneFile : UploadRegister(f)
  \/ \E f \in OneFile : UploadPhoto(f)
  \/ \E f \in OneFile : UploadFails("register", f)
  \/ \E f \in OneFile : UploadFails("photo", f)
  \/ \E r \in pending, name \in NameInputs, desc \in DescInputs :
       Admitted(MaxItems, name) /\ RegisterHandler(r, name, desc)
  \/ \E r \in pending, param \in IdParams : PhotoHandler(r, param)
  \/ \E r \in pending, param \in IdParams : PhotoUnlinkFails(r, param)
  \/ \E param \in IdParams : DeleteHandler(param)
  \/ \E param \in IdParams : DeleteUnlinkFails(param)

SpecFail == Init /\ [][NextFail]_vars

\* Reading the photo in both variants next to registration, photo
\* replacement and delete, for every cache directory and working directory;
\* the photo of main.js is sent in a later step than its existence test.
NextRead ==
  \/ Tick
  \/ \E f \in OneFile : UploadRegister(f)
  \/ \E f \in OneFile : UploadPhoto(f)
  \/ \E r \in pending, name \in NameInputs, desc \in DescInputs :
       Admitted(MaxItems, name) /\ RegisterHandler(r, name, desc)
  \/ \E r \in pending, param \in IdParams : PhotoHandler(r, param)
  \/ \E param \in IdParams : DeleteHandler(param)
  \/ \E param \in IdParams : ReadPhotoHandler(param)
  \/ \E param \in IdParams : ReadPhotoMain(param)
  \/ \E param \in IdParams : ReadPhotoCheck(param)
  \/ \E s \in pending : SendFile(s)

SpecRead == InitAnyEnv /\ [][NextRead]_vars

\* List, get and search next to registration, update and delete.
NextSearch ==
  \/ \E f \in OneFile : UploadRegister(f)
  \/ \E r \in pending, name \in NameInputs, desc \in DescInputs :
       Admitted(MaxItems, name) /\ RegisterHandler(r, name, desc)
  \/ \E param \in IdParams, name \in NameInputs, desc \in DescInputs :
       UpdateHandler(param, name, desc)
  \/ \E param \in IdParams : DeleteHandler(param)
  \/ ListHandler
  \/ \E param \in IdParams : GetHandler(param)
  \/ \E param \in IdParams, flag \in FlagInputs : SearchHandler(param, flag)

SpecSearch == Init /\ [][NextSearch]_vars

\* ---------------------------------------------------------------- claims
\* C1: the ids returned by successful registrations, in the order they were
\* returned, start at 1 and are strictly increasing, so none is handed out
\* twice, whatever updates, photo replacements and deletions came in between.
IdsStrictlyIncreasing ==
  /\ issued # <<>> => issued[1] = 1
  /\ \A i, j \in 1..Len(issued) : i < j => issued[i] < issued[j]

\* a second record was just registered after the first one was deleted
IdIssuedAfterDelete ==
  /\ Len(issued) = 2
  /\ resp.status = 201
  /\ Len(inventory) = 1
  /\ inventory[1].id = issued[2]

\* C2: every record whose photo field is not null names a file that exists
\* in the cache directory.
NoDanglingPhoto ==
  \A k \in 1..Len(inventory) :
    Truthy(inventory[k].photo) => ExistsSync(files, inventory[k].photo)

\* C3: when no request is in progress, every file in the cache directory is
\* the photo of some record of the inventory.
NoOrphanedBlobs ==
  pending = {} =>
    \A name \in DOMAIN files :
      \E k \in 1..Len(inventory) : inventory[k].photo = name

\* the file of the given name is the same before and after the step
SameFile(name) ==
  /\ ExistsSync(files', name) <=> ExistsSync(files, name)
  /\ ExistsSync(files, name) => files'[name] = files[name]

\* C4: a successful delete of id leaves no record with that id (a Get of it
\* is NotFound), removes the file the record referenced, and leaves every
\* other record, and the file it references, as they were.
DeleteRemovesOnlyItsRecordAndBlob ==
  [][\A param \in IdParams :
       (DeleteHandler(param) /\ resp'.status = 200) =>
         LET id == ParseInt(param)
             k == FindIndex(inventory, id)
         IN /\ FindIndex(inventory', id) = 0
            /\ Truthy(inventory[k].photo) =>
                 ~ExistsSync(files', inventory[k].photo)
            /\ \A j \in 1..Len(inventory) :
                 j # k =>
                   /\ \E i \in 1..Len(inventory') : inventory'[i] = inventory[j]
                   /\ Truthy(inventory[j].photo) => SameFile(inventory[j].photo)
    ]_vars

\* C5: a successful photo replacement with a file leaves the record naming an
\* existing file that holds the uploaded bytes, and the file the record named
\* before (when it had another name) no longer exists.
ReplacePhotoInstallsNewBlob ==
  [][\A r \in pending, param \in IdParams :
       (PhotoHandler(r, param) /\ resp'.status = 200 /\ Truthy(r.file)) =>
         LET k == FindIndex(inventory, ParseInt(param))
             old == inventory[k].photo
             new == inventory'[k].photo
         IN /\ new = r.file
            /\ ExistsSync(files', new)
            /\ files'[new] = r.bytes
            /\ (Truthy(old) /\ old # new) => ~ExistsSync(files', old)
    ]_vars

\* C6: a registration whose name is empty or missing is answered 400, adds
\* no record and leaves the id counter where it was, so the next successful
\* registration gets the id it would have got without the failed one.
EmptyNameCreateRejected ==
  [][\A r \in pending, name \in {Undefined, ""}, desc \in DescInputs :
       RegisterHandler(r, name, desc) =>
         /\ resp'.status = 400
         /\ inventory' = inventory
         /\ nextId' = nextId
         /\ issued' = issued
    ]_vars

\* a registration was rejected after one had succeeded
CreateRejected ==
  /\ resp.status = 400
  /\ Len(inventory) = 1
  /\ nextId = 2

\* C7: a Get of the id a registration has just returned, with no other
\* response in between, is answered 200 with the id, name, description and
\* photo of the item the registration returned.
GetAfterCreateReturnsCreated ==
  [][\A param \in IdParams :
       (/\ resp.status = 201
        /\ ParseInt(param) = resp.body.item.id
        /\ GetHandler(param)) =>
         /\ resp'.status = 200
         /\ resp'.body.item.id = resp.body.item.id
         /\ resp'.body.item.inventory_name = resp.body.item.inventory_name
         /\ resp'.body.item.description = resp.body.item.description
         /\ resp'.body.item.photo = resp.body.item.photo
    ]_vars

\* a Get answered with the record registered last, which has a photo, after
\* an earlier record was deleted
GotLastCreated ==
  /\ resp.status = 200
  /\ DOMAIN resp.body = {"item"}
  /\ resp.body.item.id = nextId - 1
  /\ resp.body.item.id = 2
  /\ Truthy(resp.body.item.photo)
  /\ Len(inventory) = 1

\* the ids of a list of records, in list order
Ids(list) == [k \in 1..Len(list) |-> list[k].id]

\* a sequence without its entries equal to x
Without(seq, x) == SelectSeq(seq, LAMBDA y : y # x)

\* the position of id in the order of registration
CreatedAt(id) == CHOOSE i \in 1..Len(issued) : issued[i] = id

\* C8: a list request returns the records of the inventory, in the order in
\* which they were registered; updates and photo replacements keep the order
\* of the records, and a delete only takes the deleted record out of it.
ListInCreationOrder ==
  [][/\ ListHandler =>
          /\ resp'.status = 200
          /\ Len(resp'.body.list) = Len(inventory)
          /\ \A k \in 1..Len(inventory) :
               /\ resp'.body.list[k].id = inventory[k].id
               /\ resp'.body.list[k].inventory_name = inventory[k].inventory_name
               /\ resp'.body.list[k].description = inventory[k].description
               /\ resp'.body.list[k].photo = inventory[k].photo
          /\ \A i, j \in 1..Len(inventory) :
               i < j => CreatedAt(inventory[i].id) < CreatedAt(inventory[j].id)
     /\ \A param \in IdParams :
          /\ (\E name \in NameInputs, desc \in DescInputs :
                UpdateHandler(param, name, desc)) =>
               Ids(inventory') = Ids(inventory)
          /\ (\E r \in pending : PhotoHandler(r, param)) =>
               Ids(inventory') = Ids(inventory)
          /\ DeleteHandler(param) =>
               Ids(inventory') = Without(Ids(inventory), ParseInt(param))
    ]_vars

\* three records were registered, the first was updated, the second deleted,
\* and the list was returned
ListedAfterUpdateAndDelete ==
  /\ resp.status = 200
  /\ DOMAIN resp.body = {"list"}
  /\ Len(issued) = 3
  /\ Ids(resp.body.list) = <<1, 3>>
  /\ resp.body.list[1].inventory_name = ""

\* C9: an update of an existing id sets each supplied field to the supplied
\* value and keeps each field not supplied; the id and photo of the record,
\* the other records, the id counter and the files are unchanged.
UpdateSetsSuppliedFieldsOnly ==
  [][\A param \in IdParams :
       LET k == FindIndex(inventory, ParseInt(param))
       IN (k # 0 /\ pending' = pending /\ now' = now) =>
            \A name \in NameInputs, desc \in DescInputs :
              UpdateHandler(param, name, desc) =>
                /\ resp'.status = 200
                /\ Len(inventory') = Len(inventory)
                /\ inventory'[k].inventory_name =
                     (IF name = Undefined THEN inventory[k].inventory_name
                      ELSE name)
                /\ inventory'[k].description =
                     (IF desc = Undefined THEN inventory[k].description
                      ELSE desc)
                /\ inventory'[k].id = inventory[k].id
                /\ inventory'[k].photo = inventory[k].photo
                /\ resp'.body.item = inventory'[k]
                /\ \A j \in 1..Len(inventory) :
                     j # k => inventory'[j] = inventory[j]
                /\ nextId' = nextId
                /\ files' = files
    ]_vars

\* an update that emptied the name of a record that has a photo
UpdatedNameToEmpty ==
  /\ resp.status = 200
  /\ "message" \in DOMAIN resp.body
  /\ resp.body.message = "Item updated successfully"
  /\ resp.body.item.inventory_name = ""
  /\ resp.body.item.description = "d"
  /\ Truthy(resp.body.item.photo)

\* C10: Get, update, photo replacement, delete and photo read of an id that is
\* not in the inventory are answered 404 and leave the records, the id
\* counter and the files as they were before the request: neither the handler
\* nor the upload of the request changes them.
UnknownIdLeavesStateUntouched ==
  [][\A param \in IdParams :
       (/\ FindIndex(inventory, ParseInt(param)) = 0
        /\ \/ GetHandler(param)
           \/ \E name \in NameInputs, desc \in DescInputs :
                UpdateHandler(param, name, desc)
           \/ \E r \in pending : PhotoHandler(r, param)
           \/ DeleteHandler(param)
           \/ ReadPhotoHandler(param)) =>
         /\ resp'.status = 404
         /\ inventory' = inventory
         /\ nextId' = nextId
         /\ files' = files
         /\ \A r \in pending : PhotoHandler(r, param) => ~r.wrote
    ]_vars

\* C11: from the moment the upload of a registration or photo replacement has
\* written its file until its handler has run, no step of another request
\* takes effect: while a request is pending, the records and the files are
\* changed by the handler of a pending request only.
UploadAndHandlerAtomic ==
  [][((\E r \in pending : Truthy(r.file)) /\
      (inventory' # inventory \/ files' # files)) =>
       \E r \in pending : pending' = pending \ {r}
    ]_vars

\* C13: every upload is stored under a name that no file of the cache
\* directory has, so no stored file is overwritten and no two records share
\* a photo name.
StoreNameIsFresh ==
  [][\A op \in {"register", "photo"}, f \in FileInputs :
       (f.present /\ Upload(op, f)) =>
         ~ExistsSync(files, UniqueName(now, f.originalname))
    ]_vars

\* C14: every record of the inventory has a non-empty name.
AllNamesNonEmpty ==
  \A k \in 1..Len(inventory) : inventory[k].inventory_name # ""

\* C12: when storing the photo of a registration fails, the registration
\* fails: the request is answered 500 and never reaches the handler, no record
\* is added and nextId is not advanced.
FailedStoreCreatesNothing ==
  [][\A f \in OneFile :
       UploadFails("register", f) =>
         /\ resp'.status = 500
         /\ pending' = pending
         /\ inventory' = inventory
         /\ nextId' = nextId
    ]_vars

\* a failed upload was answered while the first record was there, the cut
\* file left in the cache directory
StoreFailedAfterFirstRecord ==
  /\ resp = ServerError("storage")
  /\ Len(inventory) = 1
  /\ nextId = 2
  /\ \E n \in DOMAIN files : files[n] = ""

\* C15: when removing the file throws during a delete or a photo
\* replacement, the request leaves no partial state: the records, their photo
\* names and the files of the cache directory are those from before the
\* request, the upload of the request included.
FailedUnlinkLeavesNoTrace ==
  [][/\ \A param \in IdParams :
          DeleteUnlinkFails(param) =>
            inventory' = inventory /\ files' = files
     /\ \A r \in pending, param \in IdParams :
          PhotoUnlinkFails(r, param) =>
            inventory' = inventory /\ files' = files /\ ~r.wrote
    ]_vars

\* C16: removing a photo file is idempotent: a delete or a photo replacement
\* of a record whose photo file is already gone still succeeds; afterwards
\* the record is removed (delete) or holds the name of the new upload, or no
\* photo when nothing was uploaded (replacement).
MissingFileDoesNotStopRemoval ==
  [][/\ \A param \in IdParams :
          LET id == ParseInt(param)
              k == FindIndex(inventory, id)
          IN (/\ k # 0
              /\ Truthy(inventory[k].photo)
              /\ ~ExistsSync(files, inventory[k].photo)
              /\ DeleteHandler(param)) =>
               /\ resp'.status = 200
               /\ FindIndex(inventory', id) = 0
               /\ Len(inventory') = Len(inventory) - 1
     /\ \A r \in pending, param \in IdParams :
          LET id == ParseInt(param)
              k == FindIndex(inventory, id)
          IN (/\ k # 0
              /\ r.op = "photo"
              /\ Truthy(inventory[k].photo)
              /\ ~ExistsSync(files, inventory[k].photo)
              /\ PhotoHandler(r, param)) =>
               /\ resp'.status = 200
               /\ inventory'[k].photo = r.file
    ]_vars

\* two records were registered with photos in the same millisecond and both
\* are deleted again: the later delete found the shared file gone
BothPhotoRecordsDeleted ==
  /\ now = 0
  /\ issued = <<1, 2>>
  /\ inventory = <<>>
  /\ DOMAIN files = {}
  /\ resp.status = 200
  /\ resp.body = [message |-> "Item deleted successfully", id |-> 1]

\* C17: a photo replacement that uploads nothing removes the record's file
\* from the cache directory and sets photo to null, leaving id, name and
\* description as they were; reading the photo of the record then answers
\* 404, in both variants.
ReplaceWithoutFileClearsPhoto ==
  [][/\ \A r \in pending, param \in IdParams :
          LET id == ParseInt(param)
              k == FindIndex(inventory, id)
          IN (/\ k # 0
              /\ r.op = "photo"
              /\ ~Truthy(r.file)
              /\ PhotoHandler(r, param)) =>
               /\ resp'.status = 200
               /\ Truthy(inventory[k].photo) =>
                    ~ExistsSync(files', inventory[k].photo)
               /\ inventory' = [inventory EXCEPT ![k].photo = Null]
               /\ \A variant \in {"main.js", "part_000"} :
                    PhotoResponse(variant, param)'.status = 404
     /\ (inventory' = inventory /\ files' = files) =>
        \A param \in IdParams :
          LET k == FindIndex(inventory, ParseInt(param))
          IN (/\ k # 0
              /\ ~Truthy(inventory[k].photo)
              /\ \/ ReadPhotoHandler(param)
                 \/ ReadPhotoMain(param)
                 \/ ReadPhotoCheck(param)) =>
               /\ resp'.status = 404
               /\ pending' = pending
    ]_vars

\* the only record has just lost its photo: the replacement without a file
\* was answered with photo null and the cache directory is empty
PhotoCleared ==
  /\ Len(inventory) = 1
  /\ inventory[1].photo = Null
  /\ DOMAIN files = {}
  /\ now = 1
  /\ resp.status = 200
  /\ resp.body = [message |-> "Photo updated successfully",
                  item |-> inventory[1]]

\* C18: a photo read served while the record is deleted or its photo replaced
\* never gets past the existence test and then sends a file that was removed
\* in the meantime: when the file is sent it is still there, and the answer
\* is its content or 404.
SentFileStillExists ==
  [][\A s \in pending :
       (s.op = "send" /\ SendFile(s)) =>
         /\ ExistsAt(env, files, PhotoPath("main.js", env, s.file))
         /\ resp'.status \in {200, 404}
    ]_vars

\* C19: search, get and list change nothing: not the records, not nextId,
\* not the cache directory.  A search with has_photo 'true' answers with the
\* record's description followed once by the photo reference; the stored
\* description stays as it was, so the same search gives the same answer
\* again.
ReadsChangeNothing ==
  [][(resp' # resp) =>
       /\ \A param \in IdParams, flag \in FlagInputs :
            LET k == FindIndex(inventory, ParseInt(param))
                item == inventory[k]
            IN SearchHandler(param, flag) =>
                 /\ UNCHANGED <<inventory, nextId, files>>
                 /\ k # 0 =>
                      /\ resp'.status = 200
                      /\ resp'.body.description =
                           IF flag = "true" /\ item.photo # Null
                           THEN item.description \o PhotoRef(item.id)
                           ELSE item.description
                      /\ SearchResult(item, flag = "true")' = resp'.body
       /\ \A param \in IdParams :
            GetHandler(param) => UNCHANGED <<inventory, nextId, files>>
       /\ ListHandler => UNCHANGED <<inventory, nextId, files>>
    ]_vars

\* a search with the flag was answered for a record with a photo and the
\* description "d": the answer carries the reference, the record does not
SearchedWithPhotoRef ==
  /\ Len(inventory) = 1
  /\ inventory[1].photo # Null
  /\ inventory[1].description = "d"
  /\ resp.status = 200
  /\ resp.body = [id |-> 1, inventory_name |-> "n",
                  description |-> "d" \o PhotoRef(1),
                  photo_url |-> PhotoURL(1)]

\* C20: the two variants find the file of a photo name at the same place,
\* the place where it was stored and where it is unlinked, whatever the cache
\* directory and the working directory; reading the photo of a record whose
\* file is stored succeeds in both variants with the same answer.
VariantsReadStoredPhoto ==
  \A param \in IdParams :
    LET k == FindIndex(inventory, ParseInt(param))
        photo == inventory[k].photo
    IN (k # 0 /\ Truthy(photo) /\ ExistsSync(files, photo)) =>
         /\ UnlinkPath(env, photo) = StorePath(env, photo)
         /\ Resolve(env.cwd, PhotoPath("part_000", env, photo)) =
              StorePath(env, photo)
         /\ Resolve(env.cwd, PhotoPath("main.js", env, photo)) =
              StorePath(env, photo)
         /\ PhotoResponse("main.js", param).status = 200
         /\ PhotoResponse("part_000", param) = PhotoResponse("main.js", param)

\* C21: in every state the ids of the records of inventory are pairwise
\* distinct, strictly increasing along the list and all smaller than nextId;
\* nextId never decreases.
IdsOrderedBelowNextId ==
  /\ [](/\ \A i, j \in 1..Len(inventory) :
             i < j => inventory[i].id < inventory[j].id
        /\ \A i, j \in 1..Len(inventory) :
             i # j => inventory[i].id # inventory[j].id
        /\ \A i \in 1..Len(inventory) : inventory[i].id < nextId)
  /\ [][nextId' >= nextId]_vars

\* the second of three registered records was deleted: ids 1 and 3 are left
\* in the list and the counter stands at 4
MiddleRecordDeleted ==
  /\ Len(inventory) = 2
  /\ inventory[1].id = 1
  /\ inventory[2].id = 3
  /\ nextId = 4
====
